---- MODULE Spec2Model ----
(***************************************************************************)
(* Conway's Game of Life on an unbounded plane (src/script.js): the sparse *)
(* live-cell store keyed by "x,y" strings, the generation engine, the      *)
(* frame loop with its delay gate, and the pointer, wheel and button       *)
(* handlers.                                                               *)
(*                                                                         *)
(* A string is a sequence of one-character strings, so that cellKey and    *)
(* parseKey format and parse as the script does.  A JavaScript number that *)
(* may be fractional (camera, zoom, pointer) is an exact rational          *)
(* [n |-> numerator, d |-> denominator > 0] in lowest terms; timestamps,   *)
(* the delay and cell coordinates are integers.                            *)
(***************************************************************************)
EXTENDS Integers, Sequences, FiniteSets, TLC

VARIABLES
    aliveCells,        \* script.js:12  Set of "x,y" keys
    cameraX, cameraY,  \* script.js:15-16
    zoom,              \* script.js:17
    paused,            \* script.js:20
    delay,             \* script.js:21
    lastFrame,         \* script.js:22
    isDragging,        \* script.js:31
    dragStartX, dragStartY,   \* script.js:32
    fps, lastFpsUpdate, framesThisSecond,  \* script.js:35-37
    width, height,     \* script.js:8-9
    now,               \* environment: timestamp of the latest frame callback
    events,            \* environment: number of input events so far
    op,                \* history: the handler that ran last, with its inputs
    prevAlive,         \* history: aliveCells before the handler that ran last
    seed,              \* history: aliveCells after start-up
    gen,               \* history: number of nextGen calls so far
    firstTs,           \* history: timestamp of the first frame, 0 before it
    steady,            \* history: every frame so far came FrameInterval after
                       \*          the one before and saw delay = PacedDelay
    lastAdv,           \* history: timestamp of the latest nextGen, 0 if none
    press,             \* history: pointer and camera at the latest primary
                       \*          press; clean until a wheel event follows
    pauseSnap          \* history: aliveCells when paused last became true

vars == <<aliveCells, cameraX, cameraY, zoom, paused, delay, lastFrame,
          isDragging, dragStartX, dragStartY, fps, lastFpsUpdate,
          framesThisSecond, width, height, now, events, op, prevAlive, seed,
          gen, firstTs, steady, lastAdv, press, pauseSnap>>

camVars   == <<cameraX, cameraY, zoom>>
clockVars == <<paused, delay, lastFrame>>
dragVars  == <<isDragging, dragStartX, dragStartY>>
fpsVars   == <<fps, lastFpsUpdate, framesThisSecond>>
sizeVars  == <<width, height>>
loopHist  == <<gen, firstTs, steady, lastAdv>>

----------------------------------------------------------------------------
(* Strings and keys                                                        *)

DigitChars == <<"0", "1", "2", "3", "4", "5", "6", "7", "8", "9">>

RECURSIVE NatToString(_)
\* Decimal digits of a natural number, most significant first.
NatToString(n) ==
    IF n < 10 THEN <<DigitChars[n + 1]>>
    ELSE NatToString(n \div 10) \o <<DigitChars[(n % 10) + 1]>>

\* `${x}` for an integer x.
NumToString(x) == IF x < 0 THEN <<"-">> \o NatToString(-x) ELSE NatToString(x)

\* cellKey(x, y): `${x},${y}`.
cellKey(x, y) == NumToString(x) \o <<",">> \o NumToString(y)

RECURSIVE SplitFrom(_, _, _)
\* k.split(sep), scanning from position i with the current piece cur.
SplitFrom(k, i, cur) ==
    IF i > Len(k) THEN <<cur>>
    ELSE IF k[i] = "," THEN <<cur>> \o SplitFrom(k, i + 1, <<>>)
    ELSE SplitFrom(k, i + 1, Append(cur, k[i]))

Split(k) == SplitFrom(k, 1, <<>>)

DigitValue(c) == CHOOSE d \in 0..9 : DigitChars[d + 1] = c

IsDigit(c) == \E d \in 0..9 : DigitChars[d + 1] = c

RECURSIVE DigitsToNat(_, _)
\* The value of the digit string s, acc being the value of the digits read.
DigitsToNat(s, acc) ==
    IF s = <<>> THEN acc
    ELSE DigitsToNat(Tail(s), 10 * acc + DigitValue(Head(s)))

NaN == "NaN"

\* Number(s) for a string s: "" is 0, an optionally signed digit string is its
\* value, anything else is NaN.
Number(s) ==
    LET body == IF s # <<>> /\ Head(s) = "-" THEN Tail(s) ELSE s
    IN  IF s = <<>> THEN 0
        ELSE IF body = <<>> \/ \E i \in 1..Len(body) : ~IsDigit(body[i]) THEN NaN
        ELSE IF Head(s) = "-" THEN -DigitsToNat(body, 0)
        ELSE DigitsToNat(body, 0)

\* parseKey reading only the digits: the sign of a coordinate is lost.
parseKeyUnsigned(k) ==
    LET parts == Split(k)
    IN  [i \in 1..Len(parts) |->
            IF parts[i] # <<>> /\ Head(parts[i]) = "-"
                THEN Number(Tail(parts[i])) ELSE Number(parts[i])]

\* parseKey(k): k.split(',').map(Number).
parseKey(k) == LET parts == Split(k) IN [i \in 1..Len(parts) |-> Number(parts[i])]

----------------------------------------------------------------------------
(* Sparse grid and generation engine                                       *)

\* The loops of lines 69-70 and 85-86 running from -2 to 2.
NeighborOffsetsWide == {d \in (-2..2) \X (-2..2) : ~(d[1] = 0 /\ d[2] = 0)}

\* The eight (dx, dy) pairs the two nested loops visit, (0, 0) skipped.
NeighborOffsets == {d \in (-1..1) \X (-1..1) : ~(d[1] = 0 /\ d[2] = 0)}

\* initGlider(x, y) applied to the live set cells.
initGlider(cells, x, y) ==
    cells \cup {cellKey(x + 1, y), cellKey(x + 2, y + 1), cellKey(x, y + 2),
                cellKey(x + 1, y + 2), cellKey(x + 2, y + 2)}

\* getNeighbors without line 71: the cell counts itself.
getNeighborsWithSelf(cells, x, y) ==
    Cardinality({d \in (-1..1) \X (-1..1) : cellKey(x + d[1], y + d[2]) \in cells})

\* getNeighbors(x, y), reading the live set cells.
getNeighbors(cells, x, y) ==
    Cardinality({d \in NeighborOffsets : cellKey(x + d[1], y + d[2]) \in cells})

\* The keys the inner loops of nextGen add for one live key.
NeighborKeys(key) ==
    LET xy == parseKey(key)
    IN  {cellKey(xy[1] + d[1], xy[2] + d[2]) : d \in NeighborOffsets}

\* The candidate set without the inner loops: only the live keys.
CandidatesLiveOnly(cells) == cells

\* The candidate set nextGen builds: every live key and its eight neighbours.
Candidates(cells) == cells \cup UNION {NeighborKeys(key) : key \in cells}

\* The rule of lines 99-103 with "neighbors === 2" left out.
LivesOnThreeOnly(cells, key) ==
    LET xy == parseKey(key)
    IN  getNeighbors(cells, xy[1], xy[2]) = 3

\* Whether nextGen adds key to newAlive.
Lives(cells, key) ==
    LET xy == parseKey(key)
        alive == key \in cells
        neighbors == getNeighbors(cells, xy[1], xy[2])
    IN  \/ alive /\ (neighbors = 2 \/ neighbors = 3)
        \/ ~alive /\ neighbors = 3

\* nextGen with a glider placed on an empty board.
nextGenSeedingEmpty(cells) ==
    IF cells = {} THEN initGlider({}, 0, 0)
    ELSE {key \in Candidates(cells) : Lives(cells, key)}

\* nextGen(): the value assigned to aliveCells.
nextGen(cells) == {key \in Candidates(cells) : Lives(cells, key)}

----------------------------------------------------------------------------
(* Exact arithmetic on fractional numbers                                  *)

RECURSIVE Gcd(_, _)
Gcd(a, b) == IF b = 0 THEN a ELSE Gcd(b, a % b)

Abs(a) == IF a < 0 THEN -a ELSE a

\* n/d in lowest terms, d > 0.
Norm(n, d) ==
    LET g == Gcd(Abs(n), Abs(d))
        s == IF d < 0 THEN -1 ELSE 1
    IN  [n |-> (s * n) \div g, d |-> (s * d) \div g]

Rat(i) == [n |-> i, d |-> 1]

\* Sums and products cancel common factors before they multiply.
RAdd(a, b) ==
    LET g == Gcd(a.d, b.d)
    IN  Norm(a.n * (b.d \div g) + b.n * (a.d \div g), (a.d \div g) * b.d)
RNeg(a) == [n |-> -a.n, d |-> a.d]
RSub(a, b) == RAdd(a, RNeg(b))
RMul(a, b) ==
    LET g1 == Gcd(Abs(a.n), b.d)
        g2 == Gcd(Abs(b.n), a.d)
    IN  Norm((a.n \div g1) * (b.n \div g2), (a.d \div g2) * (b.d \div g1))
RInv(a) == IF a.n < 0 THEN [n |-> -a.d, d |-> -a.n] ELSE [n |-> a.d, d |-> a.n]
RDiv(a, b) == RMul(a, RInv(b))
RLess(a, b) == a.n * b.d < b.n * a.d
RMin(a, b) == IF RLess(b, a) THEN b ELSE a
RMax(a, b) == IF RLess(a, b) THEN b ELSE a

\* Math.floor.
Floor(a) == a.n \div a.d

\* The value of a variable never assigned (let dragStartX, dragStartY;).
Undefined == [n |-> 0, d |-> 0]

----------------------------------------------------------------------------
(* Start-up                                                                *)

\* The state after lines 251-255 have run in a window of inner size win, the
\* live set being cells and the zoom z.
StartAt(cells, win, z) ==
    /\ aliveCells = cells
    /\ cameraX = Rat(-40) /\ cameraY = Rat(-30) /\ zoom = z
    /\ paused = FALSE /\ delay = 0 /\ lastFrame = 0
    /\ isDragging = FALSE /\ dragStartX = Undefined /\ dragStartY = Undefined
    /\ fps = 0 /\ lastFpsUpdate = 0 /\ framesThisSecond = 0
    /\ width = win[1] /\ height = win[2] - 55
    /\ now = 0 /\ events = 0
    /\ op = [name |-> "start", arg |-> <<>>]
    /\ prevAlive = cells /\ seed = cells /\ pauseSnap = cells
    /\ gen = 0 /\ firstTs = 0 /\ steady = TRUE /\ lastAdv = 0
    /\ press = [x |-> Undefined, y |-> Undefined,
                cx |-> Undefined, cy |-> Undefined, clean |-> FALSE,
                moves |-> 0, ends |-> 0]

\* The same with the zoom of line 17.
StartWith(cells, win) == StartAt(cells, win, Rat(10))

----------------------------------------------------------------------------
(* The frame loop                                                          *)

\* Line 137 without its condition: lastFrame = timestamp on every frame.
FrameBaseNow(timestamp) == timestamp

\* lastFrame after line 137: if (!lastFrame) lastFrame = timestamp.
FrameBase(timestamp) == IF lastFrame = 0 THEN timestamp ELSE lastFrame

\* Line 138 without "!paused".
AdvanceWhilePaused(timestamp, last) == timestamp - last > delay

\* Line 138 with ">=" for ">".
AdvanceAtDelay(timestamp, last) == ~paused /\ timestamp - last >= delay

\* The condition of line 138, last being lastFrame after line 137.
ShouldAdvance(timestamp, last) == ~paused /\ timestamp - last > delay

\* loop(timestamp), drawGrid and the fps text being output only.
loop(timestamp) ==
    LET newSecond == timestamp > lastFpsUpdate + 1000
        last      == FrameBase(timestamp)
        advance   == ShouldAdvance(timestamp, last)
    IN  /\ fps' = IF newSecond THEN framesThisSecond ELSE fps
        /\ lastFpsUpdate' = IF newSecond THEN timestamp ELSE lastFpsUpdate
        /\ framesThisSecond' = (IF newSecond THEN 0 ELSE framesThisSecond) + 1
        /\ aliveCells' = IF advance THEN nextGen(aliveCells) ELSE aliveCells
        /\ lastFrame' = IF advance THEN timestamp ELSE last
        /\ gen' = IF advance THEN gen + 1 ELSE gen
        /\ lastAdv' = IF advance THEN timestamp ELSE lastAdv
        /\ firstTs' = IF firstTs = 0 THEN timestamp ELSE firstTs
        /\ steady' = (steady /\ ~paused /\ delay = 20
                        /\ (firstTs = 0 \/ timestamp - now = 5))
        /\ op' = [name |-> "loop", arg |-> <<timestamp>>]
        /\ prevAlive' = aliveCells
        /\ UNCHANGED <<camVars, paused, delay, dragVars, sizeVars, seed, press, pauseSnap>>

----------------------------------------------------------------------------
(* Event handlers                                                          *)

\* onResize followed by the initGlider(0, 0) of start-up.
onResizeReseeding(innerWidth, innerHeight) ==
    /\ width' = innerWidth
    /\ height' = innerHeight - 55
    /\ aliveCells' = initGlider(aliveCells, 0, 0)
    /\ op' = [name |-> "onResize", arg |-> <<innerWidth, innerHeight>>]
    /\ prevAlive' = aliveCells
    /\ UNCHANGED <<camVars, clockVars, dragVars, fpsVars, loopHist,
                   seed, press, pauseSnap>>

\* handlers.onResize in a window of inner size innerWidth x innerHeight.
onResize(innerWidth, innerHeight) ==
    /\ width' = innerWidth
    /\ height' = innerHeight - 55
    /\ op' = [name |-> "onResize", arg |-> <<innerWidth, innerHeight>>]
    /\ prevAlive' = aliveCells
    /\ UNCHANGED <<aliveCells, camVars, clockVars, dragVars, fpsVars, loopHist,
                   seed, press, pauseSnap>>

\* handlers.onMouseDown(e).
onMouseDown(button, clientX, clientY) ==
    /\ IF button # 0
          THEN UNCHANGED dragVars
          ELSE /\ isDragging' = TRUE
               /\ dragStartX' = Rat(clientX)
               /\ dragStartY' = Rat(clientY)
    /\ press' = IF button # 0 THEN press
                ELSE [x |-> Rat(clientX), y |-> Rat(clientY),
                      cx |-> cameraX, cy |-> cameraY, clean |-> TRUE,
                      moves |-> 0, ends |-> 0]
    /\ op' = [name |-> "onMouseDown", arg |-> <<button, clientX, clientY>>]
    /\ prevAlive' = aliveCells
    /\ UNCHANGED <<aliveCells, camVars, clockVars, fpsVars, sizeVars, loopHist,
                   seed, pauseSnap>>

\* onMouseUp with line 162 as "isDragging = !isDragging".
onMouseUpToggling(button) ==
    /\ isDragging' = IF button # 0 THEN isDragging ELSE ~isDragging
    /\ press' = IF button # 0 THEN press ELSE [press EXCEPT !.ends = @ + 1]
    /\ op' = [name |-> "onMouseUp", arg |-> <<button>>]
    /\ prevAlive' = aliveCells
    /\ UNCHANGED <<aliveCells, camVars, clockVars, dragStartX, dragStartY,
                   fpsVars, sizeVars, loopHist, seed, pauseSnap>>

\* handlers.onMouseUp(e).
onMouseUp(button) ==
    /\ isDragging' = IF button # 0 THEN isDragging ELSE FALSE
    /\ press' = IF button # 0 THEN press ELSE [press EXCEPT !.ends = @ + 1]
    /\ op' = [name |-> "onMouseUp", arg |-> <<button>>]
    /\ prevAlive' = aliveCells
    /\ UNCHANGED <<aliveCells, camVars, clockVars, dragStartX, dragStartY,
                   fpsVars, sizeVars, loopHist, seed, pauseSnap>>

\* handlers.onMouseLeave().
onMouseLeave ==
    /\ isDragging' = FALSE
    /\ press' = [press EXCEPT !.ends = @ + 1]
    /\ op' = [name |-> "onMouseLeave", arg |-> <<>>]
    /\ prevAlive' = aliveCells
    /\ UNCHANGED <<aliveCells, camVars, clockVars, dragStartX, dragStartY,
                   fpsVars, sizeVars, loopHist, seed, pauseSnap>>

\* Lines 175-176 left out: the anchor stays where the button went down.
AnchorKept(anchor, pointer) == anchor

\* Lines 175-176: the anchor after a move of the drag.
AnchorAfterMove(anchor, pointer) == pointer

\* handlers.onMouseMove(e).
onMouseMove(clientX, clientY) ==
    /\ IF isDragging
          THEN /\ cameraX' = RSub(cameraX, RDiv(RSub(Rat(clientX), dragStartX), zoom))
               /\ cameraY' = RSub(cameraY, RDiv(RSub(Rat(clientY), dragStartY), zoom))
               /\ dragStartX' = AnchorAfterMove(dragStartX, Rat(clientX))
               /\ dragStartY' = AnchorAfterMove(dragStartY, Rat(clientY))
          ELSE UNCHANGED <<cameraX, cameraY, dragStartX, dragStartY>>
    /\ press' = IF isDragging THEN [press EXCEPT !.moves = @ + 1] ELSE press
    /\ op' = [name |-> "onMouseMove", arg |-> <<clientX, clientY>>]
    /\ prevAlive' = aliveCells
    /\ UNCHANGED <<aliveCells, zoom, clockVars, isDragging, fpsVars, sizeVars,
                   loopHist, seed, pauseSnap>>

\* The square the two loops of onClick visit around (wx, wy).
InSquare(wx, wy, x, y) ==
    /\ wx - 50 <= x /\ x <= wx + 50
    /\ wy - 50 <= y /\ y <= wy + 50

\* The loops of onClick without line 194: cells are only ever added.
DeletesNothing(key, wx, wy, rolled) == FALSE

\* Whether the loops of onClick delete key: they visit the cell it names, build
\* this very key for it, and the roll for that cell is 0.  rolled holds the
\* offsets from (wx, wy) of the cells whose roll is 1.
Deletes(key, wx, wy, rolled) ==
    LET xy == parseKey(key)
    IN  /\ InSquare(wx, wy, xy[1], xy[2])
        /\ cellKey(xy[1], xy[2]) = key
        /\ <<xy[1] - wx, xy[2] - wy>> \notin rolled

\* aliveCells after the loops of onClick around (wx, wy).
Painted(cells, wx, wy, rolled) ==
    {key \in cells : ~Deletes(key, wx, wy, rolled)}
        \cup {cellKey(wx + o[1], wy + o[2]) : o \in rolled}

\* The cell (wx, wy) onClick computes for a click at (clientX, clientY), rect
\* being the canvas' bounding rectangle <<left, top>>.
ClickCell(clientX, clientY, rect) ==
    LET mx == clientX - rect[1]
        my == clientY - rect[2]
    IN  <<Floor(RAdd(cameraX, RDiv(Rat(mx), zoom))),
          Floor(RAdd(cameraY, RDiv(Rat(my), zoom)))>>

\* Line 181 without "isDragging".
ClickIgnoredWhenRunning == ~paused

\* The condition of line 181, under which onClick returns at once.
ClickIgnored == isDragging \/ ~paused

\* handlers.onClick(e).
onClick(clientX, clientY, rect, rolled) ==
    LET w == ClickCell(clientX, clientY, rect)
    IN  /\ aliveCells' = IF ClickIgnored
                            THEN aliveCells
                            ELSE Painted(aliveCells, w[1], w[2], rolled)
        /\ op' = [name |-> "onClick", arg |-> <<clientX, clientY, rect, rolled>>]
        /\ prevAlive' = aliveCells
        /\ UNCHANGED <<camVars, clockVars, dragVars, fpsVars, sizeVars, loopHist,
                       seed, press, pauseSnap>>

\* Line 216 without Math.max: only the upper bound is kept.
ClampZoomAbove(z) == RMin(Rat(50), z)

\* Math.min(50, Math.max(1, z)) of line 216.
ClampZoom(z) == RMin(Rat(50), RMax(Rat(1), z))

\* Lines 218-219 with the sign of the pointer term reversed.
CameraAfterZoomAdding(before, mouse, newZoom) == RAdd(before, RDiv(mouse, newZoom))

\* Lines 218-219: the camera that keeps the world coordinate before under the
\* pointer at the new zoom.
CameraAfterZoom(before, mouse, newZoom) == RSub(before, RDiv(mouse, newZoom))

\* handlers.onWheel(e); rect is the canvas' bounding rectangle <<left, top>>.
onWheel(deltaY, clientX, clientY, rect) ==
    LET mouseX == Rat(clientX - rect[1])
        mouseY == Rat(clientY - rect[2])
        wxBeforeZoom == RAdd(cameraX, RDiv(mouseX, zoom))
        wyBeforeZoom == RAdd(cameraY, RDiv(mouseY, zoom))
        zoomFactor == IF deltaY < 0 THEN Norm(11, 10) ELSE Norm(9, 10)
        newZoom == ClampZoom(RMul(zoom, zoomFactor))
    IN  /\ zoom' = newZoom
        /\ cameraX' = CameraAfterZoom(wxBeforeZoom, mouseX, newZoom)
        /\ cameraY' = CameraAfterZoom(wyBeforeZoom, mouseY, newZoom)
        /\ press' = [press EXCEPT !.clean = FALSE]
        /\ op' = [name |-> "onWheel", arg |-> <<deltaY, clientX, clientY, rect>>]
        /\ prevAlive' = aliveCells
        /\ UNCHANGED <<aliveCells, clockVars, dragVars, fpsVars, sizeVars,
                       loopHist, seed, pauseSnap>>

\* onPauseClick that also restarts the delay: lastFrame = 0.
onPauseClickRestartsDelay ==
    /\ paused' = ~paused
    /\ lastFrame' = 0
    /\ pauseSnap' = IF ~paused THEN aliveCells ELSE pauseSnap
    /\ op' = [name |-> "onPauseClick", arg |-> <<>>]
    /\ prevAlive' = aliveCells
    /\ UNCHANGED <<aliveCells, camVars, delay, dragVars, fpsVars, sizeVars,
                   loopHist, seed, press>>

\* handlers.onPauseClick().
onPauseClick ==
    /\ paused' = ~paused
    /\ pauseSnap' = IF ~paused THEN aliveCells ELSE pauseSnap
    /\ op' = [name |-> "onPauseClick", arg |-> <<>>]
    /\ prevAlive' = aliveCells
    /\ UNCHANGED <<aliveCells, camVars, delay, lastFrame, dragVars, fpsVars,
                   sizeVars, loopHist, seed, press>>

\* Line 228 without Math.max: the delay may go below 0.
FasterDelayUnfloored(d) == d - 20

\* Line 228: Math.max(0, delay - 20).
FasterDelay(d) == IF d - 20 > 0 THEN d - 20 ELSE 0

\* handlers.onSpeedUpClick().
onSpeedUpClick ==
    /\ delay' = FasterDelay(delay)
    /\ op' = [name |-> "onSpeedUpClick", arg |-> <<>>]
    /\ prevAlive' = aliveCells
    /\ UNCHANGED <<aliveCells, camVars, paused, lastFrame, dragVars, fpsVars,
                   sizeVars, loopHist, seed, press, pauseSnap>>

\* handlers.onSpeedDownClick().
onSpeedDownClick ==
    /\ delay' = delay + 20
    /\ op' = [name |-> "onSpeedDownClick", arg |-> <<>>]
    /\ prevAlive' = aliveCells
    /\ UNCHANGED <<aliveCells, camVars, paused, lastFrame, dragVars, fpsVars,
                   sizeVars, loopHist, seed, press, pauseSnap>>

----------------------------------------------------------------------------
(* Bounds and inputs                                                       *)

MaxEvents == 3      \* input events in a run of Spec
MaxFrames == 2      \* frames in a run of Spec
MaxTicks == 10      \* SpecClock runs to 5 * MaxTicks ms
MaxPaced == 21      \* SpecPaced runs to 5 * MaxPaced ms
MaxSlow == 2        \* SpecClock raises delay to 20 * MaxSlow ms at most
MaxCells == 5       \* SpecLife starts from at most this many live cells
MaxGen == 2         \* SpecLife advances this many generations
SeedR == 2          \* SpecGlider seeds the glider at x, y in -SeedR..SeedR
MaxGlide == 8       \* SpecGlider advances this many generations

\* Inner sizes of the window.
WindowSizes == {<<1024, 768>>, <<1280, 775>>}

\* Pointer positions (clientX, clientY).
Pointers == {<<400, 300>>, <<915, 300>>}

\* Mouse buttons: primary, secondary.
Buttons == {0, 2}

\* Wheel deltas: one notch up, one notch down.
WheelDeltas == {-100, 100}

\* The canvas' bounding rectangle <<left, top>>.
Rects == {<<0, 0>>}

\* Offsets from the clicked cell of the cells that may roll alive.
RollOffsets == {<<-50, 0>>, <<0, 0>>}

\* Gaps between successive frame timestamps, in units of 5 ms.
FrameTicks == {1, 4}

\* SpecLife draws its live cells from this square moved to one of Origins.
Window == (0..2) \X (0..3)
Origins == {<<-2, -2>>, <<8, -11>>}

----------------------------------------------------------------------------
(* The program, under bounded input                                        *)

Init == \E win \in WindowSizes : StartWith(initGlider({}, 0, 0), win)

Input(A) == events < MaxEvents /\ A /\ events' = events + 1 /\ now' = now

Frame ==
    /\ framesThisSecond < MaxFrames
    /\ loop(now + 25) /\ now' = now + 25
    /\ UNCHANGED events

Resize == \E win \in WindowSizes : Input(onResize(win[1], win[2]))
MouseDown == \E b \in Buttons, p \in Pointers : Input(onMouseDown(b, p[1], p[2]))
MouseUp == \E b \in Buttons : Input(onMouseUp(b))
MouseLeave == Input(onMouseLeave)
MouseMove == \E p \in Pointers : Input(onMouseMove(p[1], p[2]))
Click ==
    \E p \in Pointers, r \in Rects, rolled \in SUBSET RollOffsets :
        Input(onClick(p[1], p[2], r, rolled))
Wheel ==
    \E dy \in WheelDeltas, p \in Pointers, r \in Rects :
        Input(onWheel(dy, p[1], p[2], r))
PauseClick == Input(onPauseClick)
SpeedUpClick == Input(onSpeedUpClick)
SpeedDownClick == Input(onSpeedDownClick)

Next ==
    \/ Frame \/ Resize \/ MouseDown \/ MouseUp \/ MouseLeave \/ MouseMove
    \/ Click \/ Wheel \/ PauseClick \/ SpeedUpClick \/ SpeedDownClick

Spec == Init /\ [][Next]_vars

----------------------------------------------------------------------------
(* The clock: frames at irregular intervals, the pause and speed buttons   *)

Tick ==
    \E k \in FrameTicks :
        /\ now + 5 * k <= 5 * MaxTicks
        /\ loop(now + 5 * k)
        /\ now' = now + 5 * k
        /\ UNCHANGED events

TogglePause == onPauseClick /\ UNCHANGED <<now, events>>
Faster == onSpeedUpClick /\ UNCHANGED <<now, events>>
Slower == delay < 20 * MaxSlow /\ onSpeedDownClick /\ UNCHANGED <<now, events>>

ClockNext == Tick \/ TogglePause \/ Faster \/ Slower

SpecClock == Init /\ [][ClockNext]_vars

----------------------------------------------------------------------------
(* The running clock under frames 5 ms apart                               *)

Pace ==
    /\ now + 5 <= 5 * MaxPaced
    /\ loop(now + 5) /\ now' = now + 5
    /\ UNCHANGED events

PacedNext == Pace \/ Faster \/ Slower

SpecPaced == Init /\ [][PacedNext]_vars

----------------------------------------------------------------------------
(* The generation engine, from any small live set                          *)

Keys(S) == {cellKey(c[1], c[2]) : c \in S}

LifeInit ==
    \E o \in Origins, S \in SUBSET Window :
        /\ Cardinality(S) <= MaxCells
        /\ StartWith(Keys({<<o[1] + c[1], o[2] + c[2]>> : c \in S}), <<1024, 768>>)

Advance ==
    /\ gen < MaxGen
    /\ loop(now + 5) /\ now' = now + 5
    /\ UNCHANGED events

SpecLife == LifeInit /\ [][Advance]_vars

GliderInit ==
    \E x \in -SeedR..SeedR, y \in -SeedR..SeedR :
        StartWith(initGlider({}, x, y), <<1024, 768>>)

Glide ==
    /\ gen < MaxGlide
    /\ loop(now + 5) /\ now' = now + 5
    /\ UNCHANGED events

SpecGlider == GliderInit /\ [][Glide]_vars

----------------------------------------------------------------------------
(* drawGrid: where a cell lands on the canvas, and whether it is filled     *)

\* Lines 115-116: the left top corner (sx, sy) of the rectangle of cell (x, y).
worldToScreen(x, y) ==
    <<Floor(RMul(RSub(Rat(x), cameraX), zoom)),
      Floor(RMul(RSub(Rat(y), cameraY), zoom))>>

\* Line 117: whether drawGrid fills the rectangle of the live cell key.
Fills(key) ==
    LET c == parseKey(key)
        s == worldToScreen(c[1], c[2])
    IN  /\ ~RLess(RAdd(Rat(s[1]), zoom), Rat(0))
        /\ ~RLess(RAdd(Rat(s[2]), zoom), Rat(0))
        /\ s[1] < width
        /\ s[2] < height

\* Lines 113-120: the rectangles (sx, sy, zoom, zoom) one call of drawGrid fills.
drawGrid ==
    {<<worldToScreen(parseKey(key)[1], parseKey(key)[2])[1],
       worldToScreen(parseKey(key)[1], parseKey(key)[2])[2], zoom, zoom>> :
        key \in {k \in aliveCells : Fills(k)}}

----------------------------------------------------------------------------
(* The camera: wheel and drag events, from a zoom at or between its bounds  *)

MaxCam == 3         \* input events in a run of SpecCamera

\* Zooms the wheel reaches with the pointer at the canvas' left top corner,
\* where it leaves the camera alone: 10 at start-up, 1 after 22 notches down
\* (10 * 0.9^22 < 1) and 50 after 17 notches up (10 * 1.1^17 > 50).
ZoomStarts == {Rat(1), Rat(10), Rat(50)}

\* Pointer positions (clientX, clientY) of the wheel and the drags.
CamPointers == {<<400, 300>>, <<915, 300>>, <<400, 610>>}

CameraInit ==
    \E z \in ZoomStarts : StartAt(initGlider({}, 0, 0), <<1024, 768>>, z)

CamInput(A) == events < MaxCam /\ A /\ events' = events + 1 /\ now' = now

Zoom ==
    \E dy \in WheelDeltas, p \in CamPointers, r \in Rects :
        CamInput(onWheel(dy, p[1], p[2], r))
Press == \E b \in Buttons, p \in CamPointers : CamInput(onMouseDown(b, p[1], p[2]))
Drag == \E p \in CamPointers : CamInput(onMouseMove(p[1], p[2]))
Release == \E b \in Buttons : CamInput(onMouseUp(b))
Leave == CamInput(onMouseLeave)

CameraNext == Zoom \/ Press \/ Drag \/ Release \/ Leave

SpecCamera == CameraInit /\ [][CameraNext]_vars

----------------------------------------------------------------------------
(* The Life rule on cells, stated without keys                             *)

Min(S) == CHOOSE a \in S : \A b \in S : a <= b
Max(S) == CHOOSE a \in S : \A b \in S : b <= a

\* The cells the keys name.
Cells(keys) == {<<parseKey(k)[1], parseKey(k)[2]>> : k \in keys}

\* The bounding box of S grown by one cell on each side.
Hull(S) ==
    IF S = {} THEN {}
    ELSE LET xs == {c[1] : c \in S}
             ys == {c[2] : c \in S}
         IN  (Min(xs) - 1 .. Max(xs) + 1) \X (Min(ys) - 1 .. Max(ys) + 1)

\* e is one of the eight Moore neighbours of c.
Adjacent(c, e) == c # e /\ Abs(c[1] - e[1]) <= 1 /\ Abs(c[2] - e[2]) <= 1

Moore(S, c) == Cardinality({e \in S : Adjacent(c, e)})

\* The next generation of the live cells S; a cell outside Hull(S) has no live
\* neighbour.
LifeRule(S) ==
    {c \in Hull(S) : \/ c \in S /\ Moore(S, c) \in {2, 3}
                     \/ c \notin S /\ Moore(S, c) = 3}

\* The latest handler was a frame that called nextGen.
Advanced == op.name = "loop" /\ gen > 0 /\ lastAdv = now

GliderAt(x, y) ==
    {<<x + 1, y>>, <<x + 2, y + 1>>, <<x, y + 2>>, <<x + 1, y + 2>>, <<x + 2, y + 2>>}
BlockAt(x, y) == {<<x, y>>, <<x + 1, y>>, <<x, y + 1>>, <<x + 1, y + 1>>}
Row(c) == {<<c[1] - 1, c[2]>>, c, <<c[1] + 1, c[2]>>}
Column(c) == {<<c[1], c[2] - 1>>, c, <<c[1], c[2] + 1>>}

\* The positions SpecLife places cells at.
Positions == {<<o[1] + c[1], o[2] + c[2]>> : o \in Origins, c \in Window}

----------------------------------------------------------------------------
(* Claims                                                                  *)

\* C1: one nextGen replaces the live set S by exactly the cells that are in S
\* with 2 or 3 Moore neighbours in S, or outside S with exactly 3, all counts
\* being taken in S.
C1_NextGenIsLifeRule ==
    Advanced => aliveCells = Keys(LifeRule(Cells(prevAlive)))

\* A generation in which a cell was born, one survived and a crowded one died.
C1_Witness ==
    /\ Advanced
    /\ \E c \in Cells(aliveCells) : c \notin Cells(prevAlive)
    /\ \E c \in Cells(aliveCells) : c \in Cells(prevAlive)
    /\ \E c \in Cells(prevAlive) :
           Moore(Cells(prevAlive), c) >= 4 /\ c \notin Cells(aliveCells)

\* C5: the glider seeded by initGlider(x, y) is, after every fourth nextGen,
\* the same five cells moved by (+1, +1): after 4k advances, by (k, k).
C5_GliderTranslates ==
    \E x \in -SeedR..SeedR, y \in -SeedR..SeedR :
        /\ seed = Keys(GliderAt(x, y))
        /\ gen % 4 = 0 =>
               aliveCells = Keys(GliderAt(x + gen \div 4, y + gen \div 4))

\* Eight generations on: the glider seeded at (-2, -2) stands at (0, 0).
C5_Witness ==
    /\ gen = 8
    /\ seed = Keys(GliderAt(-2, -2))
    /\ aliveCells = Keys(GliderAt(0, 0))

\* C6: a blinker alone turns into the orthogonal line through the same centre
\* after one nextGen and is back to the original set after two.
C6_BlinkerPeriodTwo ==
    \A c \in Positions :
        /\ seed = Keys(Row(c)) =>
               /\ gen = 1 => aliveCells = Keys(Column(c))
               /\ gen = 2 => aliveCells = seed
        /\ seed = Keys(Column(c)) =>
               /\ gen = 1 => aliveCells = Keys(Row(c))
               /\ gen = 2 => aliveCells = seed

\* A horizontal blinker across the origin, two generations on.
C6_Witness ==
    /\ gen = 2
    /\ seed = Keys(Row(<<-1, -1>>))
    /\ prevAlive = Keys(Column(<<-1, -1>>))
    /\ aliveCells = seed

\* C7: a 2x2 block alone, at any position, is unchanged by nextGen.
C7_BlockIsStill ==
    \A c \in Positions :
        (Advanced /\ prevAlive = Keys(BlockAt(c[1], c[2]))) => aliveCells = prevAlive

\* The block at (-1, -1), which spans both signs, after a generation.
C7_Witness ==
    /\ Advanced
    /\ prevAlive = Keys(BlockAt(-1, -1))
    /\ aliveCells = Keys(BlockAt(-1, -1))

\* C2: while paused no frame changes the live set, whatever the timestamp and
\* the delay: it stays the set it was when pause was entered.
C2_PausedFramesKeepCells ==
    paused => /\ aliveCells = pauseSnap
              /\ op.name = "loop" => aliveCells = prevAlive /\ lastAdv < now

\* A frame while paused, later than delay after the latest generation.
C2_Witness ==
    /\ paused /\ op.name = "loop"
    /\ gen > 0 /\ now - lastAdv > delay
    /\ aliveCells = pauseSnap /\ aliveCells # seed

\* C3: a frame calls nextGen at most once, and only more than delay ms after
\* the generation before it (after the first frame, for the first one); with
\* delay 20 and frames 5 ms apart that is one generation per 25 ms: at most 5
\* in 100 ms, and fewer than one per frame.
C3_DelayGate ==
    /\ [](steady /\ firstTs # 0 =>
              /\ gen = (now - firstTs) \div 25
              /\ now - firstTs <= 100 => gen <= 5
              /\ now - firstTs >= 10 => gen < (now - firstTs) \div 5)
    /\ [][/\ gen' \in {gen, gen + 1}
           /\ gen' = gen + 1 =>
                  /\ op'.name = "loop" /\ lastAdv' = now'
                  /\ firstTs # 0
                  /\ now' - (IF lastAdv # 0 THEN lastAdv ELSE firstTs) > delay]_vars

\* 100 ms of frames 5 ms apart under delay 20: four generations.
C3_Witness == steady /\ firstTs # 0 /\ now - firstTs = 100 /\ gen = 4

\* C4 as stated: running with delay 0, every frame advances one generation,
\* the first frame included.
C4_EveryFrameAdvances ==
    [][(now' # now /\ ~paused /\ delay = 0) => gen' = gen + 1]_vars

\* C4, amended: running with delay 0, every frame after the first one advances
\* exactly one generation; the first frame only sets lastFrame.
C4_LaterFramesAdvance ==
    [][(now' # now /\ ~paused /\ delay = 0) =>
          /\ lastFrame' = now'
          /\ IF firstTs = 0
                THEN gen' = gen /\ aliveCells' = aliveCells
                ELSE /\ gen' = gen + 1
                     /\ aliveCells' = Keys(LifeRule(Cells(aliveCells)))]_vars

\* The third frame of a run with delay 0: the second generation.
C4_Witness ==
    /\ ~paused /\ delay = 0 /\ Advanced
    /\ framesThisSecond = 3 /\ gen = 2

\* C10: a pause click flips paused and changes neither the live set, the delay
\* nor lastFrame; the click that resumes finds the live set as it was when the
\* click before it paused, whatever frames came in between.
C10_PauseTwiceRestores ==
    /\ []((op.name = "onPauseClick" /\ ~paused) => aliveCells = pauseSnap)
    /\ [][op'.name = "onPauseClick" =>
              /\ paused' = ~paused
              /\ UNCHANGED <<aliveCells, delay, lastFrame>>]_vars

\* Resumed after a frame that came, while paused, later than delay after the
\* latest generation.
C10_Witness ==
    /\ op.name = "onPauseClick" /\ ~paused
    /\ gen > 0 /\ now - lastAdv > delay
    /\ aliveCells = pauseSnap /\ aliveCells # seed

\* C8: a click while the simulation runs or a drag is in progress changes
\* neither the live set nor the camera nor the clock.
C8_ClickDisabled ==
    [][(op'.name = "onClick" /\ (~paused \/ isDragging)) =>
          UNCHANGED <<aliveCells, camVars, clockVars>>]_vars

\* A click while paused, in the middle of a drag.
C8_Witness ==
    /\ op.name = "onClick" /\ paused /\ isDragging
    /\ aliveCells = prevAlive

C11_ZoomBounded ==
    /\ [](~RLess(zoom, Rat(1)) /\ ~RLess(Rat(50), zoom))
    /\ [][op'.name = "onWheel" =>
              /\ (zoom = Rat(50) /\ op'.arg[1] < 0) => zoom' = Rat(50)
              /\ (zoom = Rat(1) /\ ~(op'.arg[1] < 0)) => zoom' = Rat(1)]_vars

\* A notch up that ended at the upper bound.
C11_Witness == op.name = "onWheel" /\ op.arg[1] < 0 /\ zoom = Rat(50)

MaxProbe == 40      \* screen points 0..MaxProbe are probed on each axis

\* C13: a screen point s maps, by onClick, to a cell whose rectangle, as
\* drawGrid places it, starts at s' with s - s' in [0, zoom), on both axes.
\* The code breaks this once camera * zoom is a fraction: drawGrid's floor
\* moves the rectangle left by up to a pixel, so s - s' reaches zoom.
C13_RoundTripWithinCell ==
    \A s \in 0..MaxProbe :
        LET w == ClickCell(s, s, <<0, 0>>)
            back == worldToScreen(w[1], w[2])
        IN  /\ 0 <= s - back[1] /\ RLess(Rat(s - back[1]), zoom)
            /\ 0 <= s - back[2] /\ RLess(Rat(s - back[2]), zoom)

\* The box [sx, sx + zoom) x [sy, sy + zoom) of a cell meets the viewport
\* [0, width) x [0, height).
BoxMeetsViewport(key) ==
    LET c == parseKey(key)
        s == worldToScreen(c[1], c[2])
    IN  /\ RLess(Rat(0), RAdd(Rat(s[1]), zoom)) /\ s[1] < width
        /\ RLess(Rat(0), RAdd(Rat(s[2]), zoom)) /\ s[2] < height

\* C14: drawGrid fills the rectangle of a live cell exactly when its box
\* meets the viewport; a box ending exactly at screen coordinate 0 is not
\* filled.  The code's test is sx + zoom >= 0, so it fills that box.
C14_FillsIffBoxMeetsViewport ==
    \A key \in aliveCells : Fills(key) <=> BoxMeetsViewport(key)

\* C15: delay is always a non-negative multiple of 20; onSpeedDownClick adds
\* 20, onSpeedUpClick takes 20 off but leaves a delay of 0 at 0, and no other
\* event changes delay.
C15_DelaySteps ==
    /\ [](delay >= 0 /\ delay % 20 = 0)
    /\ [][CASE op'.name = "onSpeedDownClick" -> delay' = delay + 20
            [] op'.name = "onSpeedUpClick" ->
                   delay' = IF delay = 0 THEN 0 ELSE delay - 20
            [] OTHER -> delay' = delay]_vars

\* The first event is a speed-up at delay 0, which leaves the delay at 0.
C15_Witness == op.name = "onSpeedUpClick" /\ events = 1 /\ delay = 0

\* C16: nextGen leaves an empty live set empty, so a board that starts empty
\* and is never painted is empty after every frame.
C16_EmptyStaysEmpty ==
    /\ (Advanced /\ prevAlive = {}) => aliveCells = {}
    /\ seed = {} => aliveCells = {}

\* The empty board after its second generation.
C16_Witness == Advanced /\ gen >= 2 /\ seed = {} /\ prevAlive = {} /\ aliveCells = {}

DragEnd(o) == (o.name = "onMouseUp" /\ o.arg[1] = 0) \/ o.name = "onMouseLeave"

\* C18: a drag-end event leaves isDragging false whatever it was; a drag-end
\* event right after another changes nothing of the program's state; and
\* isDragging becomes true only by a press of the primary button and is never
\* true right after a drag-end event.
C18_DragEnds ==
    /\ [](isDragging => ~DragEnd(op))
    /\ [][/\ DragEnd(op') => ~isDragging'
          /\ (DragEnd(op') /\ DragEnd(op)) =>
                 UNCHANGED <<aliveCells, camVars, clockVars, dragVars, fpsVars,
                             sizeVars>>
          /\ (isDragging' /\ ~isDragging) =>
                 (op'.name = "onMouseDown" /\ op'.arg[1] = 0)]_vars

\* A drag ended twice: the second drag-end event after a press.
C18_Witness == press.clean /\ press.ends = 2 /\ DragEnd(op) /\ ~isDragging

\* C19: after nextGen every live cell was live before or is one of the eight
\* neighbours of a cell that was; so the bounding box of the live set grows
\* by at most one cell on each side, and the live set stays finite.
C19_OneRingGrowth ==
    Advanced =>
        LET new == Cells(aliveCells)
            old == Cells(prevAlive)
        IN  /\ \A c \in new : c \in old \/ \E e \in old : Adjacent(c, e)
            /\ IsFiniteSet(aliveCells)
            /\ new # {} =>
                   /\ old # {}
                   /\ Min({c[1] : c \in new}) >= Min({c[1] : c \in old}) - 1
                   /\ Max({c[1] : c \in new}) <= Max({c[1] : c \in old}) + 1
                   /\ Min({c[2] : c \in new}) >= Min({c[2] : c \in old}) - 1
                   /\ Max({c[2] : c \in new}) <= Max({c[2] : c \in old}) + 1

\* A generation with a newborn cell one row above the previous bounding box.
C19_Witness ==
    /\ Advanced /\ aliveCells # {} /\ prevAlive # {}
    /\ \E c \in Cells(aliveCells) : c \notin Cells(prevAlive)
    /\ Min({c[2] : c \in Cells(aliveCells)}) = Min({c[2] : c \in Cells(prevAlive)}) - 1

\* C20: aliveCells changes only in a frame of loop taken while running and in
\* an onClick taken while paused and not dragging; every other handler leaves
\* it unchanged, and the two never apply in one state, one needing paused
\* false and the other paused true.
C20_OnlyLoopAndPaintChangeCells ==
    [][/\ aliveCells' # aliveCells =>
              \/ op'.name = "loop" /\ ~paused
              \/ op'.name = "onClick" /\ paused /\ ~isDragging
       /\ op'.name \notin {"loop", "onClick"} => aliveCells' = aliveCells
       /\ (op'.name = "loop" /\ paused) => aliveCells' = aliveCells
       /\ (op'.name = "onClick" /\ ~paused) => aliveCells' = aliveCells]_vars

\* A paint that changed the live set, after a generation advance.
C20_Witness == op.name = "onClick" /\ aliveCells # prevAlive /\ gen > 0

====
